---- MODULE Spec2Model ----
(***************************************************************************)
(* The Shelly device gateway of src/shelly_server.py: the connection       *)
(* registry, the WebSocket session handler with its table of pending RPC   *)
(* requests, and the HTTP handler of GET /metrics.  Everything runs on one  *)
(* asyncio event loop, so an action is the code between two awaits.         *)
(* Further down: the gateway's metric extraction and the collector that     *)
(* polls it (src/collectors/shelly.py), and the exporter of src/exporter.py *)
(* with its main loop and management API.                                   *)
(***************************************************************************)
EXTENDS Integers, Sequences, FiniteSets, TLC

\* ------------------------------------------------------------------ bounds
MaxCalls == 2       \* GET /metrics requests served

\* ------------------------------------------------------------------ values
None == "None"
Absent == "<absent>"            \* key not in the JSON object
Unhashable == "<unhashable>"    \* a JSON list or object used as a value
EmptyStr == ""
OtherId == "other-id"           \* an id no request ever carried

\* the two WebSocket connections the model follows, in the order they are accepted
WebSockets == <<"ws1", "ws2">>
Conns == {WebSockets[i] : i \in 1..Len(WebSockets)}
RequestIds == <<"uuid-1", "uuid-2", "uuid-3", "uuid-4">>
Calls == 1..MaxCalls
uuid4(k) == RequestIds[k]

SrcNames == {"shellyplug-a"}
\* the peer address of each connection
RemoteAddrs == <<"10.0.0.1", "10.0.0.2">>

\* Python truthiness of the values a device id can take
Truthy(v) == v \notin {None, EmptyStr}

VARIABLES connections, pending_requests, sess, call, last

\* the module globals of src/exporter.py, the names in prometheus_client's
\* default registry, and the position of main() in its loop
VARIABLES current_config, current_collector, gauges, reload_flag, REGISTRY, main

\* history: a POST /reload was answered 200 and no load has started since
VARIABLE unserved

server_vars == <<connections, pending_requests, sess, call>>

exporter_vars ==
    <<current_config, current_collector, gauges, reload_flag, REGISTRY, main, unserved>>

vars == <<connections, pending_requests, sess, call, last,
          current_config, current_collector, gauges, reload_flag, REGISTRY, main,
          unserved>>

\* --------------------------------------------------- ShellyConnectionRegistry
\* self.connections is a dict: a sequence of entries in insertion order
Keys(reg) == {reg[i].device_id : i \in 1..Len(reg)}

IndexOf(reg, device_id) == CHOOSE i \in 1..Len(reg) : reg[i].device_id = device_id

register_append(reg, device_id, websocket) ==
    Append(reg, [device_id |-> device_id, websocket |-> websocket])

register(reg, device_id, websocket) ==
    IF device_id \in Keys(reg)
    THEN [reg EXCEPT ![IndexOf(reg, device_id)].websocket = websocket]
    ELSE Append(reg, [device_id |-> device_id, websocket |-> websocket])

unregister_first(reg, device_id) ==
    IF device_id \in Keys(reg)
    THEN SelectSeq(reg, LAMBDA e : e.device_id # device_id)
    ELSE IF Len(reg) > 0 THEN Tail(reg) ELSE reg

unregister(reg, device_id) ==
    IF device_id \in Keys(reg)
    THEN SelectSeq(reg, LAMBDA e : e.device_id # device_id)
    ELSE reg

get_connection(reg, device_id) ==
    IF device_id \in Keys(reg) THEN reg[IndexOf(reg, device_id)].websocket ELSE None

get_all_devices(reg) == [i \in 1..Len(reg) |-> reg[i].device_id]

\* ------------------------------------------------------------------ frames
\* A JSON document as the handler sees it after json.loads
\* ("result" is read only from a response, so frames with no usable id are
\* listed without it)
Documents ==
    {[type |-> "falsy"], [type |-> "number"]}
    \cup [type : {"object"},
          src : {Absent, EmptyStr, Unhashable} \cup SrcNames,
          id : {Absent, Unhashable},
          has_result : {FALSE}]
    \cup [type : {"object"},
          src : {Absent, EmptyStr, Unhashable} \cup SrcNames,
          id : {OtherId} \cup {uuid4(k) : k \in Calls},
          has_result : BOOLEAN]

\* A raw text frame: either no JSON at all, or the text of a document
Messages == {[text |-> "garbage"]} \cup [text : {"json"}, doc : Documents]

\* The frames of a well-behaved device and of line noise: notifications,
\* responses and stray responses, each naming the device in "src"
DeviceDocuments ==
    [type : {"object"}, src : SrcNames, id : {Absent},
     has_result : {FALSE}]
    \cup [type : {"object"}, src : SrcNames, id : {OtherId},
          has_result : {TRUE}]
    \cup [type : {"object"}, src : SrcNames,
          id : {uuid4(k) : k \in Calls}, has_result : BOOLEAN]

DeviceMessages == {[text |-> "garbage"]} \cup [text : {"json"}, doc : DeviceDocuments]

\* the "id" member of a frame, Absent when the frame is no JSON object
MessageId(message) ==
    IF message.text = "json" /\ message.doc.type = "object"
    THEN message.doc.id ELSE Absent

NoneData == [type |-> "None"]

_parse_rpc_message(message) ==
    IF message.text = "json" THEN message.doc ELSE NoneData

\* `not data`
IsFalsy(data) == data.type \in {"None", "falsy"}

FallbackId(remote_addr) ==
    IF remote_addr = "10.0.0.1" THEN "shelly_10_0_0_1" ELSE "shelly_10_0_0_2"

\* an extraction that ignores the payload and always uses the peer address
extract_fallback_always(data, remote_addr) ==
    IF data.type # "object" THEN [raised |-> TRUE, value |-> None]
    ELSE [raised |-> FALSE, value |-> FallbackId(remote_addr)]

\* returns [raised, value]; `"src" in data` raises TypeError on a number
_extract_device_id(data, remote_addr) ==
    IF data.type # "object" THEN [raised |-> TRUE, value |-> None]
    ELSE IF data.src # Absent THEN [raised |-> FALSE, value |-> data.src]
    ELSE [raised |-> FALSE, value |-> FallbackId(remote_addr)]

\* ----------------------------------------------------------------- futures
\* what a caller reads of a response message: its id and its "result" member
NoResponse == [id |-> None, has_result |-> FALSE]

Response(message) == [id |-> message.id, has_result |-> message.has_result]

NewFuture == [state |-> "PENDING", result |-> NoResponse]

done(future) == future.state # "PENDING"

set_result(future, message) == [state |-> "FINISHED", result |-> Response(message)]

cancel_keeps_pending(future) == future

\* what the expiry of wait_for does to the future it waits on
cancel(future) == IF done(future) THEN future ELSE [future EXCEPT !.state = "CANCELLED"]

\* ------------------------------------------------- ShellyWebSocketHandler
\* returns [pending_requests, ret, raised]
dispatch_no_done_check(pend, message) ==
    IF message.type # "object" \/ message.id = Unhashable
    THEN [pending_requests |-> pend, ret |-> FALSE, raised |-> TRUE]
    ELSE IF message.id # Absent /\ message.id \in DOMAIN pend
    THEN [pending_requests |-> [pend EXCEPT ![message.id] = set_result(@, message)],
          ret |-> TRUE, raised |-> FALSE]
    ELSE [pending_requests |-> pend, ret |-> FALSE, raised |-> FALSE]

\* a dispatch that hands the frame to the oldest waiter instead of matching by id
dispatch_by_arrival(pend, message) ==
    IF message.type # "object" \/ message.id = Unhashable
    THEN [pending_requests |-> pend, ret |-> FALSE, raised |-> TRUE]
    ELSE LET open == {r \in DOMAIN pend : ~done(pend[r])}
         IN IF message.id # Absent /\ open # {}
            THEN LET first == CHOOSE r \in open :
                                \A q \in open :
                                    (CHOOSE k \in 1..Len(RequestIds) : RequestIds[k] = r)
                                    <= (CHOOSE k \in 1..Len(RequestIds) : RequestIds[k] = q)
                 IN [pending_requests |-> [pend EXCEPT ![first] = set_result(@, message)],
                     ret |-> TRUE, raised |-> FALSE]
            ELSE [pending_requests |-> pend, ret |-> FALSE, raised |-> FALSE]

\* a dispatch that takes a frame without "id" as the reading every unresolved
\* waiter is waiting for
dispatch_push_resolves(pend, message) ==
    IF message.type # "object" \/ message.id = Unhashable
    THEN [pending_requests |-> pend, ret |-> FALSE, raised |-> TRUE]
    ELSE IF message.id = Absent
    THEN [pending_requests |->
              [r \in DOMAIN pend |->
                  IF done(pend[r]) THEN pend[r]
                  ELSE [state |-> "FINISHED",
                        result |-> [id |-> r, has_result |-> TRUE]]],
          ret |-> TRUE, raised |-> FALSE]
    ELSE IF message.id \in DOMAIN pend
    THEN [pending_requests |->
              IF ~done(pend[message.id])
              THEN [pend EXCEPT ![message.id] = set_result(@, message)]
              ELSE pend,
          ret |-> TRUE, raised |-> FALSE]
    ELSE [pending_requests |-> pend, ret |-> FALSE, raised |-> FALSE]

dispatch_rpc_response(pend, message) ==
    IF message.type # "object" \/ message.id = Unhashable
    THEN [pending_requests |-> pend, ret |-> FALSE, raised |-> TRUE]
    ELSE IF message.id # Absent /\ message.id \in DOMAIN pend
    THEN [pending_requests |->
              IF ~done(pend[message.id])
              THEN [pend EXCEPT ![message.id] = set_result(@, message)]
              ELSE pend,
          ret |-> TRUE, raised |-> FALSE]
    ELSE [pending_requests |-> pend, ret |-> FALSE, raised |-> FALSE]

\* a read loop that derives the device id from every frame, not only while
\* the local device_id is still empty
process_message_rederive(device_id, remote_addr, websocket, reg, pend, message) ==
    LET data == _parse_rpc_message(message)
        same == [device_id |-> device_id, connections |-> reg,
                 pending_requests |-> pend, ret |-> FALSE,
                 raised |-> FALSE, skipped |-> FALSE, registers |-> FALSE]
    IN IF IsFalsy(data) THEN [same EXCEPT !.skipped = TRUE]
       ELSE LET ext == _extract_device_id(data, remote_addr)
            IN IF ext.raised THEN [same EXCEPT !.raised = TRUE]
               ELSE IF Truthy(ext.value) /\ ext.value = Unhashable
               THEN [same EXCEPT !.device_id = ext.value, !.raised = TRUE,
                                 !.registers = TRUE]
               ELSE LET d == dispatch_rpc_response(pend, data)
                    IN [device_id |-> ext.value,
                        connections |-> IF Truthy(ext.value)
                                        THEN register(reg, ext.value, websocket)
                                        ELSE reg,
                        pending_requests |-> d.pending_requests,
                        ret |-> d.ret, raised |-> d.raised,
                        skipped |-> FALSE, registers |-> Truthy(ext.value)]

\* The body of the read loop for one message: what it leaves in the local
\* device_id, the registry and the pending table, how it ended, and whether
\* it called registry.register
process_message(device_id, remote_addr, websocket, reg, pend, message) ==
    LET data == _parse_rpc_message(message)
        same == [device_id |-> device_id, connections |-> reg,
                 pending_requests |-> pend, ret |-> FALSE,
                 raised |-> FALSE, skipped |-> FALSE, registers |-> FALSE]
    IN IF IsFalsy(data) THEN [same EXCEPT !.skipped = TRUE]
       ELSE LET ext == IF ~Truthy(device_id)
                       THEN _extract_device_id(data, remote_addr)
                       ELSE [raised |-> FALSE, value |-> device_id]
            IN IF ext.raised THEN [same EXCEPT !.raised = TRUE]
               ELSE LET doReg == ~Truthy(device_id) /\ Truthy(ext.value)
                    IN IF doReg /\ ext.value = Unhashable
                       THEN [same EXCEPT !.device_id = ext.value, !.raised = TRUE,
                                         !.registers = TRUE]
                       ELSE LET d == dispatch_rpc_response(pend, data)
                            IN [device_id |-> ext.value,
                                connections |-> IF doReg
                                                THEN register(reg, ext.value, websocket)
                                                ELSE reg,
                                pending_requests |-> d.pending_requests,
                                ret |-> d.ret, raised |-> d.raised,
                                skipped |-> FALSE, registers |-> doReg]

\* an exception raised while one message is handled leaves the loop instead
message_loop_reraise(session) == [session EXCEPT !.transport = "closed"]

\* except Exception: log and continue with the next message
message_loop_except(session) == session

finally_keep_registered(reg, device_id) == reg

\* a close that drops every registration, not only the session's own
finally_clear_registry(reg, device_id) ==
    IF Truthy(device_id) THEN <<>> ELSE reg

\* the finally clause of handle_connection; unregister of an unhashable id raises
handle_connection_finally(reg, device_id) ==
    IF Truthy(device_id) /\ device_id # Unhashable
    THEN unregister(reg, device_id)
    ELSE reg

\* ----------------------------------------------------------- exceptions
NoExc == [class |-> "None", msg |-> ""]
TimeoutError == [class |-> "asyncio.TimeoutError", msg |-> ""]
ConnectionClosed == [class |-> "ConnectionClosed", msg |-> "connection closed"]

\* except asyncio.TimeoutError: raise Exception("RPC request timeout")
send_rpc_request_except(exc) ==
    IF exc.class = "asyncio.TimeoutError"
    THEN [class |-> "Exception", msg |-> "RPC request timeout"]
    ELSE exc

pop_on_success_only(pend, request_id, exc) ==
    IF exc = NoExc THEN [r \in DOMAIN pend \ {request_id} |-> pend[r]] ELSE pend

\* finally: self.pending_requests.pop(request_id, None)
send_rpc_request_finally(pend, request_id, exc) ==
    [r \in DOMAIN pend \ {request_id} |-> pend[r]]

\* a lookup that goes on to the RPC without testing for an empty registry
lookup_without_404(reg) ==
    LET devices == get_all_devices(reg)
        device_id == IF devices = <<>> THEN FallbackId(RemoteAddrs[1]) ELSE devices[1]
        websocket == IF devices = <<>> THEN WebSockets[1]
                     ELSE get_connection(reg, device_id)
    IN [status |-> 0, error |-> "", device_id |-> device_id, websocket |-> websocket]

\* the start of handle_metrics: the two registry lookups and the responses
\* that end the request before any RPC (status 0: go on to send_rpc_request)
handle_metrics_lookup(reg) ==
    LET devices == get_all_devices(reg) IN
    IF devices = <<>>
    THEN [status |-> 404, error |-> "No Shelly device connected",
          device_id |-> None, websocket |-> None]
    ELSE LET device_id == devices[1]
             websocket == get_connection(reg, device_id)
         IN IF websocket = None
            THEN [status |-> 502, error |-> "Device connection lost",
                  device_id |-> None, websocket |-> None]
            ELSE [status |-> 0, error |-> "",
                  device_id |-> device_id, websocket |-> websocket]

\* a handler that catches the timeout only and lets every other exception
\* out (no response: status 0)
except_timeout_only(exc) ==
    IF exc.class = "asyncio.TimeoutError"
    THEN [status |-> 504, error |-> "RPC request timeout"]
    ELSE [status |-> 0, error |-> exc.msg]

\* the except clauses of handle_metrics
handle_metrics_except(exc) ==
    IF exc.class = "asyncio.TimeoutError"
    THEN [status |-> 504, error |-> "RPC request timeout"]
    ELSE [status |-> 500, error |-> exc.msg]

\* ------------------------------------------------------------- state
\* A session: the handler's position, its local device_id, the transport, and
\* what the handler has done so far (parsed: a parseable frame was delivered;
\* registers: calls of registry.register; registered_as: the id of the last
\* one, which a closed session keeps on record)
FreeSession == [state |-> "free", device_id |-> None, transport |-> "closed",
                parsed |-> FALSE, registers |-> 0, registered_as |-> None]

ClosedSession == [state |-> "closed", device_id |-> None, transport |-> "closed",
                  parsed |-> FALSE, registers |-> 0, registered_as |-> None]

RunningSession == [state |-> "running", device_id |-> None, transport |-> "open",
                   parsed |-> FALSE, registers |-> 0, registered_as |-> None]

IdleCall == [pc |-> "idle", device_id |-> None, websocket |-> None, sent |-> FALSE,
             rpc_result |-> NoResponse, rpc_error |-> NoExc, status |-> 0,
             error |-> "", caller |-> "connected"]

\* the outcome of the read loop's latest iteration; NoFrame after any other step
NoFrame == [op |-> "none"]

EmptyTable == [r \in {} |-> NewFuture]

\* ------------------------------------------------------ exporter values
MetricNames == {"power_total_watts", "power_voltage_volts"}

\* the order of the keys in every dict of metrics
MetricOrder == <<"power_total_watts", "power_voltage_volts">>

\* device types get_collector knows, and one it does not
DeviceTypes == {"shelly", "raspberry_pi"}
Unsupported == "unsupported_board"

\* config["metrics"]: a dict from metric name to enabled
MetricsConfigs == UNION {[S -> BOOLEAN] : S \in SUBSET MetricNames}

\* what loader.load() can return
Configs == [device_type : DeviceTypes \cup {Unsupported}, metrics : MetricsConfigs]

NoConfig == [device_type |-> None, metrics |-> <<>>]

\* the configuration main() starts with
InitialConfig ==
    [device_type |-> "shelly",
     metrics |-> [m \in MetricNames |-> m = "power_total_watts"]]

\* the names initialize_gauges makes gauges for: the enabled metrics
enabled_metrics(config) ==
    {m \in DOMAIN config.metrics : config.metrics[m]}

\* main() up to its loop: load, initialize_collector, initialize_gauges
InitExporter ==
    /\ current_config = InitialConfig
    /\ current_collector = InitialConfig.device_type
    /\ gauges = enabled_metrics(InitialConfig)
    /\ REGISTRY = enabled_metrics(InitialConfig)
    /\ reload_flag = FALSE
    /\ main = [pc |-> "check", loaded |-> FALSE, new_config |-> NoConfig]
    /\ unserved = FALSE

Init ==
    /\ connections = <<>>
    /\ pending_requests = EmptyTable
    /\ sess = [c \in Conns |-> FreeSession]
    /\ call = [k \in Calls |-> IdleCall]
    /\ last = NoFrame
    /\ InitExporter

\* request ids that went out on some transport
SentIds == {uuid4(k) : k \in {j \in Calls : call[j].sent}}

\* a device can echo only ids it has been sent
Echoable(m) ==
    (m.text = "json" /\ m.doc.type = "object")
        => m.doc.id \in {Absent, Unhashable, OtherId} \cup SentIds

\* the frames a device can send
Receivable == {m \in Messages : Echoable(m)}

RemoteAddr(c) == RemoteAddrs[CHOOSE i \in 1..Len(WebSockets) : WebSockets[i] = c]

\* the ids of reg1 whose handle is another one, or gone, in reg2
Changed(reg1, reg2) ==
    {d \in Keys(reg1) : get_connection(reg2, d) # get_connection(reg1, d)}

\* What one iteration of the read loop did, read off the values before and
\* after it: r is the result of process_message, sessions the sessions after it
Observe(c, message, r, sessions) ==
    LET id == MessageId(message)
        known == id \in DOMAIN pending_requests
        session == sessions[c]
    IN [op |-> "frame",
        conn |-> c,
        id |-> id,
        garbage |-> message.text = "garbage",
        doctype |-> _parse_rpc_message(message).type,
        src |-> IF message.text = "json" /\ message.doc.type = "object"
                THEN message.doc.src ELSE Absent,
        \* the first frame of this connection that json.loads accepts
        first |-> message.text = "json" /\ ~sess[c].parsed,
        derived_before |-> sess[c].device_id # None,
        registers |-> r.registers,
        ret |-> r.ret, raised |-> r.raised, skipped |-> r.skipped,
        \* the waiter the frame addresses, before the frame
        before |-> IF known THEN pending_requests[id].state ELSE "absent",
        \* the pending table after the frame
        table |-> IF r.pending_requests = pending_requests THEN "same"
                  ELSE IF /\ known
                          /\ DOMAIN r.pending_requests = DOMAIN pending_requests
                          /\ \A q \in DOMAIN pending_requests \ {id} :
                                 r.pending_requests[q] = pending_requests[q]
                          /\ r.pending_requests[id] =
                                 [state |-> "FINISHED", result |-> Response(message.doc)]
                  THEN "delivered"
                  ELSE "other",
        \* the session after the frame
        alive |-> session.state = "running" /\ session.transport = "open",
        others |-> IF \A o \in Conns \ {c} : sessions[o] = sess[o]
                   THEN "same" ELSE "changed",
        lost |-> Changed(connections, r.connections),
        had_id |-> Truthy(sess[c].device_id),
        identity |-> IF session.device_id = sess[c].device_id THEN "same" ELSE "set",
        registry |-> IF r.connections = connections THEN "same"
                     ELSE IF r.connections = register(connections, session.device_id, c)
                     THEN "registered"
                     ELSE "other"]

\* What the start of a GET /metrics did: sel is the result of the lookup,
\* pend and sessions are the pending table and the sessions after the step
ObserveGet(sel, pend, sessions) ==
    [op |-> "get",
     registered |-> Len(connections),
     status |-> sel.status,
     device_id |-> sel.device_id,
     \* the selected id is the first listed and its handle a running session
     first_listed |-> /\ connections # <<>>
                      /\ sel.device_id = connections[1].device_id
                      /\ sel.websocket = connections[1].websocket,
     live |-> /\ sel.websocket \in Conns
              /\ sess[sel.websocket].state = "running",
     table |-> IF pend = pending_requests THEN "same" ELSE "added",
     sessions |-> IF sessions = sess THEN "same" ELSE "changed"]

\* -------------------------------------------- handle_connection (per session)
\* websockets.serve accepted a connection and started handle_connection
Accept(i) ==
    LET c == WebSockets[i] IN
    /\ sess[c].state = "free"
    /\ \A j \in 1..(i - 1) : sess[WebSockets[j]].state # "free"
    /\ sess' = [sess EXCEPT ![c] = RunningSession]
    /\ last' = NoFrame
    /\ UNCHANGED <<connections, pending_requests, call>>
    /\ UNCHANGED exporter_vars

\* a read loop that takes the next frame only when no caller is suspended
ReadLoopReadyWhenNoCaller(c) ==
    /\ sess[c].state = "running"
    /\ sess[c].transport = "open"
    /\ \A k \in Calls : call[k].pc # "wait"

\* `async for message in websocket` can take a frame: the handler is in its
\* loop and the transport is open; nothing else is awaited in the loop
ReadLoopReady(c) ==
    /\ sess[c].state = "running"
    /\ sess[c].transport = "open"

\* one iteration of `async for message in websocket`
Frame(c, message) ==
    /\ ReadLoopReady(c)
    /\ Echoable(message)
    /\ LET r == process_message(sess[c].device_id, RemoteAddr(c), c,
                                connections, pending_requests, message)
           s1 == [sess[c] EXCEPT !.device_id = r.device_id,
                                 !.parsed = @ \/ message.text = "json",
                                 !.registers = IF r.registers THEN @ + 1 ELSE @,
                                 !.registered_as = IF r.registers THEN r.device_id
                                                   ELSE @]
       IN /\ sess' = [sess EXCEPT ![c] = IF r.raised THEN message_loop_except(s1)
                                                      ELSE s1]
          /\ connections' = r.connections
          /\ pending_requests' = r.pending_requests
          /\ last' = Observe(c, message, r, sess')
    /\ UNCHANGED call
    /\ UNCHANGED exporter_vars

\* the transport goes away: peer close, protocol error, or no pong within 10 s
ConnectionLost(c) ==
    /\ sess[c].state = "running"
    /\ sess[c].transport = "open"
    /\ sess' = [sess EXCEPT ![c].transport = "closed"]
    /\ last' = NoFrame
    /\ UNCHANGED <<connections, pending_requests, call>>
    /\ UNCHANGED exporter_vars

\* the read loop ends (normally or by an exception) and the finally clause runs
HandlerExit(c) ==
    /\ sess[c].state = "running"
    /\ sess[c].transport = "closed"
    /\ connections' = handle_connection_finally(connections, sess[c].device_id)
    /\ sess' = [sess EXCEPT ![c] = [ClosedSession EXCEPT !.registered_as =
                                                          sess[c].registered_as]]
    /\ UNCHANGED <<pending_requests, call>>
    /\ last' = [op |-> "exit", conn |-> c, device_id |-> sess[c].device_id,
                registers |-> sess[c].registers,
                registered_as |-> sess[c].registered_as,
                entry |-> get_connection(connections, sess[c].device_id),
                others |-> IF \A o \in Conns \ {c} : sess'[o] = sess[o]
                           THEN "same" ELSE "changed",
                lost |-> Changed(connections, connections'),
                table |-> IF pending_requests' = pending_requests
                          THEN "same" ELSE "other"]
    /\ UNCHANGED exporter_vars

\* ------------------------------------------------ handle_metrics (per request)
\* GET /metrics up to the first await: registry lookups, then send_rpc_request
\* creates the id and the future
HandleMetrics(k) ==
    /\ call[k].pc = "idle"
    /\ \A j \in 1..(k - 1) : call[j].pc # "idle"
    /\ LET sel == handle_metrics_lookup(connections) IN
       /\ IF sel.status # 0
          THEN /\ call' = [call EXCEPT ![k].pc = "done", ![k].status = sel.status,
                                       ![k].error = sel.error]
               /\ UNCHANGED pending_requests
          ELSE /\ call' = [call EXCEPT ![k].pc = "send",
                                       ![k].device_id = sel.device_id,
                                       ![k].websocket = sel.websocket]
               /\ pending_requests' =
                    [r \in DOMAIN pending_requests \cup {uuid4(k)} |->
                        IF r = uuid4(k) THEN NewFuture ELSE pending_requests[r]]
       /\ UNCHANGED <<connections, sess>>
       /\ last' = ObserveGet(sel, pending_requests', sess')
    /\ UNCHANGED exporter_vars

\* a GET /devices that answers like GET /metrics when nothing is registered
handle_devices_404_when_empty(reg) ==
    IF reg = <<>>
    THEN [status |-> 404, devices |-> <<>>, count |-> 0]
    ELSE [status |-> 200, devices |-> get_all_devices(reg), count |-> Len(reg)]

\* the response of GET /devices
handle_devices(reg) ==
    LET devices == get_all_devices(reg)
    IN [status |-> 200, devices |-> devices, count |-> Len(devices)]

\* GET /devices: no await, the whole handler is one step
HandleDevices ==
    /\ last' = [op |-> "devices", response |-> handle_devices(connections)]
    /\ UNCHANGED <<connections, pending_requests, sess, call>>
    /\ UNCHANGED exporter_vars

\* await websocket.send(...): raises ConnectionClosed on a closed transport
Send(k) ==
    /\ call[k].pc = "send"
    /\ IF sess[call[k].websocket].transport = "open"
       THEN /\ call' = [call EXCEPT ![k].pc = "wait", ![k].sent = TRUE,
                                    ![k].websocket = None]
            /\ UNCHANGED pending_requests
       ELSE LET exc == send_rpc_request_except(ConnectionClosed)
                resp == handle_metrics_except(exc)
            IN /\ pending_requests' =
                    send_rpc_request_finally(pending_requests, uuid4(k), exc)
               /\ call' = [call EXCEPT ![k].pc = "done", ![k].rpc_error = exc,
                                       ![k].device_id = None,
                                       ![k].websocket = None,
                                       ![k].status = resp.status,
                                       ![k].error = resp.error]
    /\ last' = NoFrame
    /\ UNCHANGED <<connections, sess>>
    /\ UNCHANGED exporter_vars

\* the HTTP client of a request in progress disconnects: the handler task is
\* not cancelled, and nothing in send_rpc_request looks at the client
CallerGone(k) ==
    /\ call[k].pc \in {"send", "wait"}
    /\ call[k].caller = "connected"
    /\ call' = [call EXCEPT ![k].caller = "gone"]
    /\ last' = NoFrame
    /\ UNCHANGED <<connections, pending_requests, sess>>
    /\ UNCHANGED exporter_vars

\* asyncio.wait_for(future, timeout=5.0): the deadline passes first and the
\* future is cancelled; the waiting task is woken in a later loop iteration
Timeout(k) ==
    /\ call[k].pc = "wait"
    /\ ~done(pending_requests[uuid4(k)])
    /\ pending_requests' = [pending_requests EXCEPT ![uuid4(k)] = cancel(@)]
    /\ last' = NoFrame
    /\ UNCHANGED <<connections, sess, call>>
    /\ UNCHANGED exporter_vars

response_always_200(response) == [status |-> 200, error |-> ""]

\* if "result" in response: the 200 answer; else: raise
\* Exception("Invalid RPC response"), which the handler's own except answers
handle_metrics_response(response) ==
    IF response.has_result
    THEN [status |-> 200, error |-> ""]
    ELSE handle_metrics_except([class |-> "Exception", msg |-> "Invalid RPC response"])

\* the task waiting in wait_for resumes: send_rpc_request returns or raises,
\* its finally clause runs, and handle_metrics builds the HTTP response
Resume(k) ==
    /\ call[k].pc = "wait"
    /\ done(pending_requests[uuid4(k)])
    /\ LET future == pending_requests[uuid4(k)]
           exc == IF future.state = "CANCELLED"
                  THEN send_rpc_request_except(TimeoutError)
                  ELSE NoExc
           response == IF exc = NoExc THEN future.result ELSE NoResponse
           ok == exc = NoExc /\ response.has_result
           resp == IF exc # NoExc THEN handle_metrics_except(exc)
                   ELSE handle_metrics_response(response)
       IN /\ pending_requests' =
               send_rpc_request_finally(pending_requests, uuid4(k), exc)
          /\ call' = [call EXCEPT ![k].pc = "done", ![k].rpc_result = response,
                                  ![k].rpc_error = exc,
                                  ![k].device_id = IF ok THEN @ ELSE None,
                                  ![k].status = resp.status,
                                  ![k].error = resp.error]
    /\ last' = NoFrame
    /\ UNCHANGED <<connections, sess>>
    /\ UNCHANGED exporter_vars

Next ==
    \/ \E i \in 1..Len(WebSockets) : Accept(i)
    \/ \E c \in Conns, m \in DeviceMessages : Frame(c, m)
    \/ \E c \in Conns : ConnectionLost(c)
    \/ \E c \in Conns : HandlerExit(c)
    \/ \E k \in Calls : HandleMetrics(k)
    \/ \E k \in Calls : Send(k)
    \/ \E k \in Calls : Timeout(k)
    \/ \E k \in Calls : Resume(k)

Spec == Init /\ [][Next]_vars

\* The event loop runs every task that is ready: a send completes or fails,
\* the 5 s timer of wait_for fires, and a task whose future is done resumes
SpecLive ==
    /\ Spec
    /\ \A k \in Calls :
          WF_vars(Send(k)) /\ WF_vars(Timeout(k)) /\ WF_vars(Resume(k))

\* One device and its GET /metrics requests: only the first connection is used
NextOneDevice ==
    \/ Accept(1)
    \/ \E m \in DeviceMessages : Frame(WebSockets[1], m)
    \/ ConnectionLost(WebSockets[1])
    \/ HandlerExit(WebSockets[1])
    \/ \E k \in Calls : HandleMetrics(k)
    \/ \E k \in Calls : Send(k)
    \/ \E k \in Calls : Timeout(k)
    \/ \E k \in Calls : Resume(k)

SpecOneDevice == Init /\ [][NextOneDevice]_vars

\* One device, whose HTTP callers may disconnect, on a fair event loop
NextCaller ==
    \/ Accept(1)
    \/ \E m \in DeviceMessages : Frame(WebSockets[1], m)
    \/ ConnectionLost(WebSockets[1])
    \/ HandlerExit(WebSockets[1])
    \/ \E k \in Calls : HandleMetrics(k)
    \/ \E k \in Calls : CallerGone(k)
    \/ \E k \in Calls : Send(k)
    \/ \E k \in Calls : Timeout(k)
    \/ \E k \in Calls : Resume(k)

SpecCaller ==
    /\ Init /\ [][NextCaller]_vars
    /\ \A k \in Calls :
          WF_vars(Send(k)) /\ WF_vars(Timeout(k)) /\ WF_vars(Resume(k))

\* The sessions under arbitrary input: every shape of frame, one GET /metrics
NextSession ==
    \/ \E i \in 1..Len(WebSockets) : Accept(i)
    \/ \E c \in Conns, m \in Messages : Frame(c, m)
    \/ \E c \in Conns : ConnectionLost(c)
    \/ \E c \in Conns : HandlerExit(c)
    \/ HandleMetrics(1)
    \/ Send(1)
    \/ Timeout(1)
    \/ Resume(1)
    \/ HandleDevices

SpecSession == Init /\ [][NextSession]_vars

\* ------------------------------------------- the registry through its API
RegistryIds == SrcNames \cup {FallbackId(RemoteAddrs[i]) : i \in 1..Len(RemoteAddrs)}

Register(device_id, websocket) ==
    /\ connections' = register(connections, device_id, websocket)
    /\ last' = [op |-> "register", device_id |-> device_id, websocket |-> websocket,
                replaced |-> device_id \in Keys(connections)]
    /\ UNCHANGED <<pending_requests, sess, call>>
    /\ UNCHANGED exporter_vars

Unregister(device_id) ==
    /\ connections' = unregister(connections, device_id)
    /\ last' = [op |-> "unregister", device_id |-> device_id,
                present |-> device_id \in Keys(connections)]
    /\ UNCHANGED <<pending_requests, sess, call>>
    /\ UNCHANGED exporter_vars

NextRegistry ==
    \/ \E d \in RegistryIds, w \in Conns : Register(d, w)
    \/ \E d \in RegistryIds : Unregister(d)

SpecRegistry == Init /\ [][NextRegistry]_vars

\* ============================================================== claims
\* send_rpc_request of call k ended in the RPC timeout
TimedOut(k) ==
    /\ call[k].pc = "done"
    /\ call[k].rpc_error.msg = "RPC request timeout"

\* call k entered send_rpc_request and has returned from it
Returned(k) == call[k].pc = "done" /\ call[k].status \notin {404, 502}

\* C1 (as claimed): dispatch_rpc_response returns true only for a frame whose
\* payload it delivers to a waiter that was still unresolved; a frame for a
\* waiter already resolved or timed out is reported false.
C1_TrueOnlyWhenDelivered ==
    (last.op = "frame" /\ last.ret)
        => last.before = "PENDING" /\ last.table = "delivered"

\* C1 (amended): a waiter is fulfilled by at most one frame, the first with
\* its id that is dispatched while it is unresolved, and a resolved or
\* cancelled waiter is never touched again; dispatch returns true exactly
\* when the frame's id is in the pending table, delivered or not.
C1_ExactlyOnce ==
    last.op = "frame"
        => /\ last.ret = (last.before # "absent")
           /\ last.table = IF last.before = "PENDING" THEN "delivered" ELSE "same"

\* a frame was reported consumed although its waiter had already been
\* cancelled by the timeout and the caller had not yet resumed
C1_Witness ==
    /\ last.op = "frame" /\ last.ret
    /\ last.before = "CANCELLED"
    /\ last.id \in DOMAIN pending_requests

\* C2 (as claimed): a GET /metrics whose RPC timed out answers 504 with the
\* body {"error": "RPC request timeout"}.
C2_Timeout504 ==
    \A k \in Calls :
        TimedOut(k) => call[k].status = 504 /\ call[k].error = "RPC request timeout"

\* C3: a send_rpc_request that has returned has exactly one outcome (a
\* response or an exception) and its id is out of the pending table; the
\* table holds only the ids of calls that are still suspended.
C3_PendingOnlySuspended ==
    /\ DOMAIN pending_requests
           \subseteq {uuid4(k) : k \in {j \in Calls : call[j].pc \in {"send", "wait"}}}
    /\ \A k \in Calls :
          Returned(k)
              => /\ uuid4(k) \notin DOMAIN pending_requests
                 /\ (call[k].rpc_result # NoResponse) # (call[k].rpc_error # NoExc)

\* one call has failed with the timeout while another is still suspended
C3_Witness ==
    \E k, j \in Calls :
        /\ TimedOut(k)
        /\ call[j].pc = "wait"
        /\ DOMAIN pending_requests = {uuid4(j)}

\* C4: a frame that carries the id of a call that has failed with the
\* timeout is not consumed and changes neither the pending table nor any call.
C4_LateResponseDropped ==
    (last.op = "frame" /\ \E k \in Calls : TimedOut(k) /\ last.id = uuid4(k))
        => ~last.ret /\ last.table = "same"

\* a late response for a timed-out call was dropped while another call waits
C4_Witness ==
    /\ last.op = "frame" /\ ~last.ret /\ ~last.skipped
    /\ \E k \in Calls : TimedOut(k) /\ last.id = uuid4(k)
    /\ pending_requests # EmptyTable

\* C5: every call gets the response frame that carries its own request id,
\* whatever the order in which the responses arrive.
C5_NoCrossDelivery ==
    /\ \A r \in DOMAIN pending_requests :
          pending_requests[r].state = "FINISHED" => pending_requests[r].result.id = r
    /\ \A k \in Calls :
          call[k].rpc_result # NoResponse => call[k].rpc_result.id = uuid4(k)

\* two calls were outstanding and the later one got its response first
C5_Witness ==
    /\ MaxCalls >= 2
    /\ call[1].pc = "wait"
    /\ pending_requests[uuid4(1)].state = "PENDING"
    /\ call[2].pc = "done"
    /\ call[2].rpc_result.id = uuid4(2)

\* C6: a frame whose id is not in the pending table, or that has no id, is
\* reported not consumed and leaves the table and every waiter as they were.
C6_UnknownIdIgnored ==
    (last.op = "frame" /\ last.before = "absent")
        => ~last.ret /\ last.table = "same"

\* a frame with a foreign id arrived while a waiter was pending, and it still is
C6_Witness ==
    /\ last.op = "frame" /\ last.id = OtherId /\ ~last.ret
    /\ \E r \in DOMAIN pending_requests : pending_requests[r].state = "PENDING"

\* C7: the registry holds at most one entry per device id; registering an id
\* that is already mapped replaces the stored session, which lookup then
\* returns, and leaves the number of listed ids unchanged.
C7_OneEntryPerId ==
    /\ [](Cardinality(Keys(connections)) = Len(connections))
    /\ [][\A d \in RegistryIds, w \in Conns :
             Register(d, w)
                 => /\ get_connection(connections', d) = w
                    /\ d \in Keys(connections)
                          => Len(get_all_devices(connections'))
                                 = Len(get_all_devices(connections))]_vars

\* an id registered to one session was registered again to the other
C7_Witness ==
    /\ last.op = "register" /\ last.replaced
    /\ Len(connections) = 2
    /\ get_connection(connections, last.device_id) = last.websocket

\* C8: unregister applied twice gives the registry that one application
\* gives, and unregister of an id that is not registered changes no entry.
C8_UnregisterIdempotent ==
    [][\A d \in RegistryIds :
          Unregister(d)
              => /\ unregister(connections', d) = connections'
                 /\ d \notin Keys(connections) => connections' = connections]_vars

\* unregister was called for an absent id on a registry that has entries
C8_Witness ==
    /\ last.op = "unregister" /\ ~last.present
    /\ Len(connections) > 0

\* C9: when a session ends, unregister is called with its device id; a
\* closed session stays closed and never registers again, and no registry
\* entry holds the handle of a closed session.
C9_ClosedUnregistered ==
    /\ [](\A i \in 1..Len(connections) :
             sess[connections[i].websocket].state = "running")
    /\ [](last.op = "exit" /\ Truthy(last.device_id)
             => last.device_id \notin Keys(connections))
    /\ [][\A c \in Conns : sess[c].state = "closed" => sess'[c] = sess[c]]_vars

\* an identified session has ended while the other one is still registered
C9_Witness ==
    /\ last.op = "exit" /\ last.device_id \in SrcNames
    /\ sess[last.conn].state = "closed"
    /\ Len(connections) = 1

\* C10 (as claimed): a frame that cannot be parsed, or whose handling raises,
\* does not end the connection and changes nothing: not the session's
\* identity, the registry or the pending table.
C10_BadFrameChangesNothing ==
    (last.op = "frame" /\ (last.garbage \/ last.raised))
        => /\ last.alive
           /\ last.identity = "same"
           /\ last.registry = "same"
           /\ last.table = "same"

\* C10 (amended): such a frame never ends the connection and never changes
\* the pending table; it changes nothing at all when it is unparseable or
\* the session is already identified.  A raising frame that is the first
\* parseable one may have set the device id and registered this session
\* before the raise.
C10_BadFrameKeepsConnection ==
    (last.op = "frame" /\ (last.garbage \/ last.raised))
        => /\ last.alive
           /\ last.table = "same"
           /\ last.registry \in {"same", "registered"}
           /\ (last.garbage \/ last.had_id)
                  => last.identity = "same" /\ last.registry = "same"

\* handling the first parseable frame of a connection raised after the
\* session had been registered, and the connection is still open
C10_Witness ==
    /\ last.op = "frame" /\ last.raised
    /\ last.registry = "registered"
    /\ last.alive

\* the session of connection c is the one the registry returns for device_id
RegisteredAs(c, device_id) ==
    /\ sess[c].device_id = device_id
    /\ get_connection(connections, device_id) = c

\* no registry entry holds connection c
Unregistered(c) == \A i \in 1..Len(connections) : connections[i].websocket # c

\* the id the first frame is claimed to register the session under
C11_ClaimedId ==
    IF last.src # Absent THEN last.src ELSE FallbackId(RemoteAddr(last.conn))

\* C11 (as claimed): after the first parseable frame of a connection, whatever
\* it is (an empty JSON object and an empty "src" included), the session is
\* registered under the frame's "src" when it has one and under the id made
\* from the peer address otherwise.
C11_FirstFrameRegisters ==
    (last.op = "frame" /\ last.first) => RegisteredAs(last.conn, C11_ClaimedId)

\* C11 (amended): the first parseable frame registers the session when it is
\* a non-empty JSON object whose "src" is absent (under the id made from the
\* peer address) or a non-empty string (under that string).  An empty JSON
\* value is skipped, an empty "src" is kept as the id without registering,
\* and a number or an unhashable "src" raises: in all of these the registry
\* is left as it was and holds no entry for the connection.
C11_FirstFrameRegistersTruthyId ==
    (last.op = "frame" /\ last.first)
        => IF last.doctype = "object" /\ last.src \in {Absent} \cup SrcNames
           THEN last.registers /\ RegisteredAs(last.conn, C11_ClaimedId)
           ELSE /\ last.registry = "same"
                /\ Unregistered(last.conn)
                /\ last.doctype \in {"falsy", "number"}
                       => sess[last.conn].device_id = None /\ ~last.registers
                /\ last.src = EmptyStr
                       => sess[last.conn].device_id = EmptyStr /\ ~last.registers

\* the first frame of a connection carried an empty "src": the session is
\* running and unregistered while the other connection is registered
C11_Witness ==
    /\ last.op = "frame" /\ last.first
    /\ last.src = EmptyStr
    /\ last.alive
    /\ Unregistered(last.conn)
    /\ Len(connections) = 1

\* C12 (as claimed): the device id of a connection is derived once and never
\* changes; register is called at most once per connection, and unregister
\* at close gets the id that was registered.
C12_DerivedOnce ==
    /\ (last.op = "frame" /\ last.derived_before) => last.identity = "same"
    /\ \A c \in Conns : sess[c].registers <= 1
    /\ (last.op = "exit" /\ last.registers > 0) => last.device_id = last.registered_as

\* C12 (amended): once the device id of a connection is non-empty it never
\* changes, whatever "src" later frames carry, and no later frame calls
\* register; register is called at most once per connection, and when
\* unregister is called at close it is with the id that was registered.  An
\* id that came out empty (an empty "src") is derived again from the next
\* frame.
C12_NonEmptyIdImmutable ==
    /\ (last.op = "frame" /\ last.had_id)
           => last.identity = "same" /\ ~last.registers /\ last.registry = "same"
    /\ \A c \in Conns :
          /\ sess[c].registers <= 1
          /\ sess[c].registers = 1 => sess[c].device_id = sess[c].registered_as
    /\ (last.op = "exit" /\ Truthy(last.device_id))
           => last.registers = 1 /\ last.registered_as = last.device_id

\* a session registered under the id made from its peer address has received
\* a frame that names another device in "src", and kept its id
C12_Witness ==
    /\ last.op = "frame" /\ last.had_id
    /\ last.src \in SrcNames
    /\ RegisteredAs(last.conn, FallbackId(RemoteAddr(last.conn)))

\* the latest frame was a notification (a JSON object without "id") received
\* by a session that already has its device id
PushNotification ==
    /\ last.op = "frame"
    /\ last.doctype = "object" /\ last.id = Absent
    /\ last.had_id

\* C13 (as claimed): a push notification received in the Active state is
\* stored for the session's device, to be served by GET /metrics.  The
\* handler's whole state is the registry, the pending table and the session's
\* own id, so a stored reading shows as a change of one of them.
C13_PushStored ==
    PushNotification
        => \/ last.table # "same"
           \/ last.registry # "same"
           \/ last.identity # "same"

\* C13 (amended): a push notification received in the Active state is
\* ignored: it is not reported as consumed and changes neither the pending
\* table, the registry nor the session; GET /metrics answers 200 only with
\* the result of the RPC response that carries the request's own id.
C13_PushIgnored ==
    /\ PushNotification
           => /\ ~last.ret /\ ~last.raised /\ ~last.skipped
              /\ last.table = "same"
              /\ last.registry = "same"
              /\ last.identity = "same"
    /\ \A k \in Calls :
          call[k].status = 200
              => call[k].rpc_result = [id |-> uuid4(k), has_result |-> TRUE]

\* a registered device pushed a notification while a GET /metrics was
\* waiting for its response, and the request is still waiting
C13_Witness ==
    /\ PushNotification
    /\ \E k \in Calls :
          /\ call[k].pc = "wait"
          /\ pending_requests[uuid4(k)].state = "PENDING"

C16_EmptyRegistry404 ==
    (last.op = "get" /\ last.registered = 0)
        => /\ last.status = 404
           /\ last.table = "same"
           /\ last.sessions = "same"
           /\ \E k \in Calls :
                 /\ call[k].pc = "done" /\ call[k].status = 404
                 /\ call[k].error = "No Shelly device connected"
                 /\ ~call[k].sent

\* a GET /metrics was answered 404 while a connection is open but has not
\* identified itself yet
C16_Witness ==
    /\ last.op = "get" /\ last.status = 404
    /\ connections = <<>>
    /\ \E c \in Conns : sess[c].state = "running" /\ sess[c].transport = "open"

\* the statuses GET /metrics is specified to answer with
MetricsStatuses == {200, 404, 502, 504, 500}

\* C15: every GET /metrics that has started ends with an HTTP response whose
\* status is 200, 404, 502, 504 or 500, whatever the device, its session and
\* the RPC do meanwhile; a failure is answered with its message, never left
\* unhandled.  (A request never goes back from "done", so "again and again no
\* request is in flight" says that each one that started has ended.)
C15_AlwaysResponds ==
    /\ [](\A k \in Calls :
             call[k].pc = "done"
                 => /\ call[k].status \in MetricsStatuses
                    /\ call[k].status # 200 => call[k].error # ""
                    /\ call[k].rpc_error # NoExc => call[k].status \in {500, 504})
    /\ []<>(\A k \in Calls : call[k].pc \in {"idle", "done"})

\* one request failed on a transport that closed before the send, another
\* got a response without "result": both were answered 500
C15_Witness ==
    \E k, j \in Calls :
        /\ call[k].pc = "done" /\ call[k].rpc_error = ConnectionClosed
        /\ call[k].status = 500
        /\ call[j].pc = "done" /\ call[j].error = "Invalid RPC response"
        /\ call[j].status = 500

\* C18: GET /devices answers 200 in every reachable state; its body lists the
\* device ids in the registry at that moment, each once, and count is the
\* number of listed ids: devices = [] and count = 0 when nothing is registered.
C18_DevicesListsRegistry ==
    /\ ENABLED HandleDevices
    /\ last.op = "devices"
           => LET body == last.response IN
              /\ body.status = 200
              /\ {body.devices[i] : i \in 1..Len(body.devices)} = Keys(connections)
              /\ body.count = Len(body.devices)
              /\ body.count = Cardinality(Keys(connections))
              /\ connections = <<>> => body.devices = <<>> /\ body.count = 0

\* GET /devices answered with an empty list after the only registered device
\* had disconnected
C18_Witness ==
    /\ last.op = "devices"
    /\ last.response.devices = <<>> /\ last.response.count = 0
    /\ \E c \in Conns :
          sess[c].state = "closed" /\ sess[c].registered_as \in RegistryIds

\* the latest step was a failure on one connection: a frame that is no JSON
\* or whose handling raised, or the end of the session
FailureOnConnection ==
    \/ last.op = "frame" /\ (last.garbage \/ last.raised)
    \/ last.op = "exit"

\* C19: a malformed frame, an exception or a close on the session of device A
\* never ends another session, never removes or replaces the registry entry
\* of a device with another id than A's, and never fails or resolves a
\* pending request.
C19_FailureIsolated ==
    FailureOnConnection
        => /\ last.others = "same"
           /\ last.table = "same"
           /\ last.lost \subseteq {IF last.op = "exit" THEN last.device_id
                                   ELSE sess[last.conn].device_id}

\* device A's session ended while device B, under another id, has a request
\* pending: B is still registered and the request still pending
C19_Witness ==
    /\ last.op = "exit" /\ last.device_id \in RegistryIds
    /\ Len(connections) = 1
    /\ connections[1].device_id # last.device_id
    /\ sess[connections[1].websocket].state = "running"
    /\ \E k \in Calls :
          /\ call[k].pc = "wait" /\ call[k].device_id = connections[1].device_id
          /\ pending_requests[uuid4(k)].state = "PENDING"

\* C20: handling a frame waits for no HTTP handler and no RPC caller: while
\* calls are suspended in send_rpc_request, however many, the read loop of an
\* open connection can take any next frame, and a response for a call that
\* is waiting is delivered to it while the other calls stay suspended, their
\* waiters untouched.
C20_ReadLoopNeverBlocked ==
    /\ \A c \in Conns :
          (/\ sess[c].state = "running" /\ sess[c].transport = "open"
           /\ \E k \in Calls : call[k].pc = "wait")
              => \A m \in DeviceMessages : Echoable(m) => ENABLED Frame(c, m)
    /\ (last.op = "frame" /\ last.before = "PENDING")
           => last.table = "delivered" /\ last.ret

\* the response of the later of two suspended calls was delivered while the
\* earlier one is still suspended with its waiter pending
C20_Witness ==
    /\ last.op = "frame" /\ last.table = "delivered"
    /\ last.id = uuid4(2)
    /\ call[1].pc = "wait" /\ call[2].pc = "wait"
    /\ pending_requests[uuid4(1)].state = "PENDING"
    /\ pending_requests[uuid4(2)].state = "FINISHED"

\* ===================================================== metric extraction
\* _extract_metrics_from_rpc_result of src/shelly_server.py and the polling
\* collector of src/collectors/shelly.py, as functions of their input.

\* A JSON value after json.loads: its type t and, for a number, the value in
\* tenths n; an object or a list carries its members beside them
NoKey == [t |-> "absent", n |-> 0]           \* the key is not in the object
Null == [t |-> "null", n |-> 0]
IntV(i) == [t |-> "int", n |-> 10 * i]
FloatV(tenths) == [t |-> "float", n |-> tenths]
BoolV(b) == [t |-> "bool", n |-> IF b THEN 10 ELSE 0]
ListV(items) == [t |-> "list", n |-> 0, items |-> items]

\* "key" in container
In(v) == v.t # "absent"

\* Python truthiness of a JSON value
truth(v) ==
    CASE v.t \in {"int", "float", "bool"} -> v.n # 0
      [] v.t = "list" -> Len(v.items) > 0
      [] v.t = "null" -> FALSE
      [] OTHER -> TRUE

float_truncating(v) ==
    IF v.t \in {"int", "float", "bool"}
    THEN [raised |-> FALSE, value |-> [t |-> "float", n |-> (v.n \div 10) * 10]]
    ELSE [raised |-> TRUE, value |-> Null]

\* float(x): a number keeps its value, None and containers raise TypeError
float(v) ==
    IF v.t \in {"int", "float", "bool"}
    THEN [raised |-> FALSE, value |-> [t |-> "float", n |-> v.n]]
    ELSE [raised |-> TRUE, value |-> Null]

\* int(x): truncates a float, None and containers raise TypeError
int(v) ==
    IF v.t \in {"int", "float", "bool"}
    THEN [raised |-> FALSE, value |-> [t |-> "int", n |-> (v.n \div 10) * 10]]
    ELSE [raised |-> TRUE, value |-> Null]

\* the right-hand side of one assignment metrics[key] = conv(value)
convert(conv, v) ==
    CASE conv = "float" -> float(v)
      [] conv = "int" -> int(v)
      [] OTHER -> [raised |-> FALSE, value |-> v]

Assign(key, conv, value) == <<[key |-> key, conv |-> conv, value |-> value]>>

AenergyKeys ==
    [total |-> "shelly_energy_total_wh",
     minute |-> <<"shelly_energy_minute_0_mwh", "shelly_energy_minute_1_mwh",
                  "shelly_energy_minute_2_mwh">>,
     ts |-> "shelly_energy_minute_timestamp"]

RetAenergyKeys ==
    [total |-> "shelly_energy_returned_total_wh",
     minute |-> <<"shelly_energy_returned_minute_0_mwh",
                  "shelly_energy_returned_minute_1_mwh",
                  "shelly_energy_returned_minute_2_mwh">>,
     ts |-> "shelly_energy_returned_minute_timestamp"]

error_types == <<"overtemp", "overpower", "overvoltage", "undervoltage">>

error_keys ==
    <<"shelly_error_overtemp", "shelly_error_overpower",
      "shelly_error_overvoltage", "shelly_error_undervoltage">>

\* if "x" in result: metrics["shelly_..."] = float(result["x"])
float_field(key, v) == IF In(v) THEN Assign(key, "float", v) ELSE <<>>

\* for i, value in enumerate(counter["by_minute"][:3])
by_minute(keys, v) ==
    IF In(v) /\ v.t = "list"
    THEN [i \in 1..(IF Len(v.items) < 3 THEN Len(v.items) ELSE 3) |->
             [key |-> keys[i], conv |-> "float", value |-> v.items[i]]]
    ELSE <<>>

\* the block of aenergy, and with other keys of ret_aenergy
energy_counter(keys, c) ==
    IF In(c) /\ c.t = "dict"
    THEN (IF In(c.total) THEN Assign(keys.total, "float", c.total) ELSE <<>>)
         \o by_minute(keys.minute, c.by_minute)
         \o (IF In(c.minute_ts) THEN Assign(keys.ts, "int", c.minute_ts) ELSE <<>>)
    ELSE <<>>

temperature(temp) ==
    IF In(temp) /\ temp.t = "dict"
    THEN (IF In(temp.tC) /\ temp.tC.t # "null"
          THEN Assign("shelly_temperature_celsius", "float", temp.tC) ELSE <<>>)
         \o (IF In(temp.tF) /\ temp.tF.t # "null"
             THEN Assign("shelly_temperature_fahrenheit", "float", temp.tF) ELSE <<>>)
    ELSE <<>>

errors(e) ==
    IF In(e) /\ e.t = "list"
    THEN Assign("shelly_errors_count", "const", IntV(Len(e.items)))
         \o [i \in 1..Len(error_types) |->
                [key |-> error_keys[i], conv |-> "const",
                 value |-> IntV(IF \E j \in 1..Len(e.items) : e.items[j] = error_types[i]
                                THEN 1 ELSE 0)]]
    ELSE <<>>

\* the assignments of the try block that the result reaches, in code order
statements(result) ==
    (IF In(result.output)
     THEN Assign("shelly_power_switch_output", "const",
                 IntV(IF truth(result.output) THEN 1 ELSE 0))
     ELSE <<>>)
    \o float_field("shelly_power_total_watts", result.apower)
    \o float_field("shelly_power_voltage_volts", result.voltage)
    \o float_field("shelly_power_current_amps", result.current)
    \o float_field("shelly_power_factor", result.pf)
    \o float_field("shelly_power_frequency_hz", result.freq)
    \o energy_counter(AenergyKeys, result.aenergy)
    \o energy_counter(RetAenergyKeys, result.ret_aenergy)
    \o temperature(result.temperature)
    \o errors(result.errors)

NoMetrics == <<>>       \* the empty dict

\* the try block: the statements run in order until one raises
RECURSIVE try_body(_, _)
try_body(steps, metrics) ==
    IF Len(steps) = 0
    THEN [metrics |-> metrics, raised |-> FALSE]
    ELSE LET s == Head(steps)
             c == convert(s.conv, s.value)
         IN  IF c.raised
             THEN [metrics |-> metrics, raised |-> TRUE]
             ELSE try_body(Tail(steps), (s.key :> c.value) @@ metrics)

\* except Exception: the error is logged, and "return metrics" follows
extract_except(r) == [metrics |-> r.metrics, raised |-> FALSE]

\* a result that is no object raises TypeError at the first '"output" in result'
_extract_metrics_from_rpc_result(result) ==
    extract_except(IF result.t = "dict"
                   THEN try_body(statements(result), NoMetrics)
                   ELSE [metrics |-> NoMetrics, raised |-> TRUE])

\* ------------------------------------------------ results of Switch.GetStatus
EnergyV(total, minutes, ts) ==
    [t |-> "dict", n |-> 0, total |-> total, by_minute |-> minutes, minute_ts |-> ts]

TemperatureV(tC, tF) == [t |-> "dict", n |-> 0, tC |-> tC, tF |-> tF]

\* the power readings in every combination of absent, null and number
PowerResults ==
    [t : {"dict"},
     output : {NoKey, BoolV(TRUE)},
     apower : {NoKey, Null, IntV(100), FloatV(123)},
     voltage : {NoKey, Null, FloatV(2301)},
     current : {NoKey, Null, FloatV(5)},
     pf : {NoKey},
     freq : {NoKey},
     aenergy : {NoKey, EnergyV(NoKey, NoKey, NoKey), EnergyV(Null, NoKey, NoKey),
                EnergyV(FloatV(1005), NoKey, NoKey)},
     ret_aenergy : {NoKey},
     temperature : {NoKey},
     errors : {NoKey}]

\* the counters, the temperature and the error list around full power readings
StatusResults ==
    [t : {"dict"},
     output : {BoolV(FALSE), Null},
     apower : {FloatV(123)},
     voltage : {FloatV(2301)},
     current : {FloatV(5)},
     pf : {FloatV(9)},
     freq : {FloatV(500)},
     aenergy : {IntV(5),
                EnergyV(FloatV(1005), ListV(<<FloatV(11), FloatV(12), FloatV(13), FloatV(14)>>),
                        FloatV(17000005)),
                EnergyV(FloatV(1005), ListV(<<FloatV(11), Null, FloatV(13)>>), IntV(1700000)),
                EnergyV(FloatV(1005), NoKey, Null)},
     ret_aenergy : {NoKey, EnergyV(FloatV(0), ListV(<<>>), IntV(1700000))},
     temperature : {NoKey, Null, TemperatureV(Null, FloatV(900)),
                    TemperatureV(FloatV(321), NoKey)},
     errors : {NoKey, ListV(<<>>), ListV(<<"overtemp">>)}]

Results == PowerResults \cup StatusResults \cup {Null}

Extract(result) ==
    /\ last' = [op |-> "extract", result |-> result,
                out |-> _extract_metrics_from_rpc_result(result)]
    /\ UNCHANGED <<connections, pending_requests, sess, call>>
    /\ UNCHANGED exporter_vars

\* --------------------------------------------- ShellyCollector.get_metrics
\* a JSON object held as a dict: map is the dict
MapV(m) == [t |-> "map", n |-> 0, map |-> m]

EmptyDict == MapV(NoMetrics)

\* Python truthiness of the "metrics" member
not_metrics(v) == IF v.t = "map" THEN DOMAIN v.map = {} ELSE ~truth(v)

\* the statuses a server can answer GET /metrics with
Statuses == {200, 201, 404, 500, 502, 504}

\* the dicts the gateway puts under "metrics"
MetricMaps == {_extract_metrics_from_rpc_result(r).metrics : r \in PowerResults}

\* response.json(): the text is no JSON, or is a JSON value that is no object,
\* or is an object with or without the member "metrics"
Bodies ==
    [json : {FALSE}, data : {Null}]
    \cup [json : {TRUE}, data : {Null, ListV(<<>>)}]
    \cup [json : {TRUE},
          data : [t : {"dict"}, n : {0},
                  metrics : {NoKey, Null, IntV(5)} \cup {MapV(m) : m \in MetricMaps}]]

\* what requests.get(url, timeout=2) ends with
Outcomes ==
    [exc : {"Timeout", "ConnectionError", "RequestException"}, status : {0},
     body : [json : {FALSE}, data : {Null}]]
    \cup [exc : {"None"}, status : Statuses, body : Bodies]

\* response.raise_for_status() raises HTTPError for a 4xx or 5xx status
raise_for_status(status) == 400 <= status /\ status < 600

\* the try block: the exception it ends with, or the value it returns
get_metrics_try(outcome) ==
    IF outcome.exc # "None"
    THEN [exc |-> outcome.exc, value |-> EmptyDict]
    ELSE IF raise_for_status(outcome.status)
    THEN [exc |-> "HTTPError", value |-> EmptyDict]
    ELSE IF ~outcome.body.json
    THEN [exc |-> "JSONDecodeError", value |-> EmptyDict]
    ELSE IF outcome.body.data.t # "dict"
    THEN [exc |-> "AttributeError", value |-> EmptyDict]
    ELSE LET data == outcome.body.data
             metrics == IF In(data.metrics) THEN data.metrics ELSE EmptyDict
         IN  IF not_metrics(metrics)
             THEN [exc |-> "None", value |-> EmptyDict]
             ELSE [exc |-> "None", value |-> metrics]

get_metrics_except_requests_only(r) ==
    IF r.exc \in {"None", "JSONDecodeError", "AttributeError"}
    THEN [raised |-> r.exc # "None", value |-> r.value]
    ELSE [raised |-> FALSE, value |-> EmptyDict]

\* the except clauses: Timeout, ConnectionError, HTTPError and, last,
\* Exception all return {}
get_metrics_except(r) ==
    IF r.exc = "None"
    THEN [raised |-> FALSE, value |-> r.value]
    ELSE [raised |-> FALSE, value |-> EmptyDict]

get_metrics(outcome) == get_metrics_except(get_metrics_try(outcome))

\* BaseCollector.safe_get_metrics: whatever get_metrics raises becomes {}
safe_get_metrics(outcome) ==
    LET r == get_metrics(outcome)
    IN  IF r.raised THEN [raised |-> FALSE, value |-> EmptyDict] ELSE r

\* one collection cycle of the exporter's collector
Poll(outcome) ==
    /\ last' = [op |-> "poll", outcome |-> outcome,
                out |-> get_metrics(outcome), safe |-> safe_get_metrics(outcome)]
    /\ UNCHANGED <<connections, pending_requests, sess, call>>
    /\ UNCHANGED exporter_vars

NextMetrics ==
    \/ \E result \in Results : Extract(result)
    \/ \E outcome \in Outcomes : Poll(outcome)

SpecMetrics == Init /\ [][NextMetrics]_vars

\* C21 (as stated): get_metrics never raises; after a status other than 200,
\* a timeout, a connection error or an unparseable body it returns the empty
\* map, and it returns a non-empty map only after a 200 whose body holds a
\* non-empty metrics object.
C21_EmptyUnlessOk200 ==
    last.op = "poll" =>
        /\ ~last.out.raised
        /\ (\/ last.outcome.exc # "None"
            \/ last.outcome.status # 200
            \/ ~last.outcome.body.json) => last.out.value = EmptyDict
        /\ (last.out.value.t = "map" /\ last.out.value # EmptyDict) =>
              /\ last.outcome.exc = "None" /\ last.outcome.status = 200
              /\ last.outcome.body.json /\ last.outcome.body.data.t = "dict"
              /\ last.outcome.body.data.metrics.t = "map"
              /\ last.outcome.body.data.metrics.map # NoMetrics

\* C21 (amended): get_metrics never raises; after a 4xx or 5xx status, a
\* timeout, a connection error or an unparseable body it returns the empty
\* map, and it returns something else only after an answer with a status below
\* 400 whose body is an object with a non-empty "metrics" member, and then it
\* returns that member.
C21_EmptyUnlessNoHttpError ==
    last.op = "poll" =>
        /\ ~last.out.raised
        /\ last.safe = last.out
        /\ (\/ last.outcome.exc # "None"
            \/ last.outcome.status >= 400
            \/ ~last.outcome.body.json) => last.out.value = EmptyDict
        /\ last.out.value # EmptyDict =>
              /\ last.outcome.exc = "None" /\ last.outcome.status < 400
              /\ last.outcome.body.json /\ last.outcome.body.data.t = "dict"
              /\ ~not_metrics(last.outcome.body.data.metrics)
              /\ last.out.value = last.outcome.body.data.metrics

\* a 500 with a body that lists metrics was answered with the empty map
C21_Witness ==
    /\ last.op = "poll" /\ last.outcome.status = 500
    /\ last.outcome.body.json /\ last.outcome.body.data.t = "dict"
    /\ last.outcome.body.data.metrics.t = "map"
    /\ last.outcome.body.data.metrics.map # NoMetrics
    /\ last.out = [raised |-> FALSE, value |-> EmptyDict]

\* the result has exactly the fields apower, voltage, current and aenergy.total,
\* each with a number
Number(v) == v.t \in {"int", "float"}

C22_FourFields ==
    /\ last.op = "extract"
    /\ last.result.t = "dict"
    /\ Number(last.result.apower) /\ Number(last.result.voltage)
    /\ Number(last.result.current)
    /\ last.result.aenergy.t = "dict" /\ Number(last.result.aenergy.total)
    /\ ~In(last.result.aenergy.by_minute) /\ ~In(last.result.aenergy.minute_ts)
    /\ ~In(last.result.output) /\ ~In(last.result.pf) /\ ~In(last.result.freq)
    /\ ~In(last.result.ret_aenergy) /\ ~In(last.result.temperature)
    /\ ~In(last.result.errors)

SourceFields(result) ==
    <<[key |-> "shelly_power_total_watts", value |-> result.apower],
      [key |-> "shelly_power_voltage_volts", value |-> result.voltage],
      [key |-> "shelly_power_current_amps", value |-> result.current],
      [key |-> "shelly_power_factor", value |-> result.pf],
      [key |-> "shelly_power_frequency_hz", value |-> result.freq]>>
    \o (IF result.aenergy.t = "dict"
        THEN <<[key |-> "shelly_energy_total_wh", value |-> result.aenergy.total]>>
        ELSE <<>>)
    \o (IF result.temperature.t = "dict"
        THEN <<[key |-> "shelly_temperature_celsius", value |-> result.temperature.tC]>>
        ELSE <<>>)

\* C23: extraction never throws and skips a null field by field: the key of
\* a field whose value is null is not in the output, and the key of every
\* field that is present with a number is.
C23_NullSkippedFieldwise ==
    (last.op = "extract" /\ last.result.t = "dict") =>
        /\ ~last.out.raised
        /\ \A i \in 1..Len(SourceFields(last.result)) :
              LET f == SourceFields(last.result)[i]
              IN  /\ f.value.t = "null" => f.key \notin DOMAIN last.out.metrics
                  /\ Number(f.value) => f.key \in DOMAIN last.out.metrics

\* call k was resumed with a response frame that has no member "result"
NoResultResponse(k) ==
    /\ call[k].pc = "done"
    /\ call[k].rpc_error = NoExc
    /\ call[k].rpc_result.id = uuid4(k)
    /\ ~call[k].rpc_result.has_result

\* C24: a GET /metrics whose matched response frame carries no result member
\* is answered 500 with an error message, never 200, and its id is no longer
\* in the pending table.
C24_NoResult500 ==
    \A k \in Calls :
        NoResultResponse(k) =>
            /\ call[k].status = 500
            /\ call[k].error = "Invalid RPC response"
            /\ uuid4(k) \notin DOMAIN pending_requests

\* a call was answered 500 after a response without result, and another call
\* is still waiting
C24_Witness ==
    /\ NoResultResponse(1) /\ call[1].status = 500
    /\ call[2].pc = "wait" /\ uuid4(2) \in DOMAIN pending_requests

\* C25: when a session ends whose id had been registered again by a later
\* session that is still running, the later session stays registered: lookup
\* of the id still returns its handle.
C25_LaterSessionStaysRegistered ==
    (/\ last.op = "exit"
     /\ last.entry \notin {None, last.conn}
     /\ sess[last.entry].state = "running")
        => get_connection(connections, last.device_id) = last.entry

\* C26: a request sent to device A is fulfilled only by a frame of A's own
\* session: the frame that resolves a waiter arrives on a connection that is
\* identified as the device the request was addressed to.
C26_ResolvedByOwnDevice ==
    (last.op = "frame" /\ last.table = "delivered")
        => \A k \in Calls :
              uuid4(k) = last.id => call[k].device_id = sess[last.conn].device_id

\* C27: every call of send_rpc_request returns, with a response or with an
\* exception: also when the session closes after the request went out, when
\* the device never answers and when the HTTP caller has disconnected.  While
\* a call waits, either its waiter is resolved or its own timeout can fire.
C27_SendRequestReturns ==
    /\ [](\A k \in Calls :
             call[k].pc = "wait" =>
                 /\ uuid4(k) \in DOMAIN pending_requests
                 /\ done(pending_requests[uuid4(k)]) \/ ENABLED Timeout(k))
    /\ \A k \in Calls : (call[k].pc \in {"send", "wait"}) ~> (call[k].pc = "done")

\* a call whose caller had gone and whose session had ended returned by the
\* timeout
C27_Witness ==
    \E k \in Calls :
        /\ TimedOut(k) /\ call[k].caller = "gone"
        /\ sess[WebSockets[1]].state = "closed"
        /\ uuid4(k) \notin DOMAIN pending_requests

\* ============================================================= exporter
\* src/exporter.py: the main loop with its reload, and the management API
\* (POST /reload, POST /metrics/enable) that the HTTP server thread serves
\* while main() runs.

\* get_collector: ValueError for a device type it does not know
get_collector(device_type) ==
    IF device_type \in DeviceTypes
    THEN [raised |-> FALSE, collector |-> device_type]
    ELSE [raised |-> TRUE, collector |-> None]

\* logs and re-raises
initialize_collector(config) == get_collector(config.device_type)

\* Gauge(name, ...) for each name in turn: prometheus_client raises ValueError
\* for a name its registry already holds, and the gauges made before stay
\* registered
RECURSIVE make_gauges(_, _, _)
make_gauges(names, made, registry) ==
    IF Len(names) = 0
    THEN [raised |-> FALSE, gauges |-> made, REGISTRY |-> registry]
    ELSE IF Head(names) \in registry
    THEN [raised |-> TRUE, gauges |-> made, REGISTRY |-> registry]
    ELSE make_gauges(Tail(names), made \cup {Head(names)},
                     registry \cup {Head(names)})

\* a new dict with one gauge per enabled metric of the config
initialize_gauges(config, registry) ==
    make_gauges(SelectSeq(MetricOrder, LAMBDA m : m \in enabled_metrics(config)),
                {}, registry)

\* apply_new_config: the globals after it, and whether reinitialisation failed
apply_new_config(new_config, config, collector, g, registry) ==
    IF config.device_type # new_config.device_type
    THEN LET c == initialize_collector(new_config)
         IN  IF c.raised
             THEN [current_config |-> config, current_collector |-> collector,
                   gauges |-> g, REGISTRY |-> registry, failed |-> TRUE]
             ELSE LET ig == initialize_gauges(new_config, registry)
                  IN  IF ig.raised
                      THEN [current_config |-> config,
                            current_collector |-> c.collector,
                            gauges |-> g, REGISTRY |-> ig.REGISTRY, failed |-> TRUE]
                      ELSE [current_config |-> new_config,
                            current_collector |-> c.collector,
                            gauges |-> ig.gauges, REGISTRY |-> ig.REGISTRY,
                            failed |-> FALSE]
    ELSE [current_config |-> new_config, current_collector |-> collector,
          gauges |-> g, REGISTRY |-> registry, failed |-> FALSE]

\* update_metrics_registry: metrics the config does not list are added, disabled
update_metrics_registry(names, metrics_config) ==
    [m \in DOMAIN metrics_config \cup names |->
        IF m \in DOMAIN metrics_config THEN metrics_config[m] ELSE FALSE]

\* the loop of collect_and_update_metrics: a gauge is made for an enabled
\* metric that has none; an exception ends the loop
RECURSIVE update_gauges(_, _, _, _)
update_gauges(names, metrics_config, g, registry) ==
    IF Len(names) = 0
    THEN [gauges |-> g, REGISTRY |-> registry]
    ELSE LET name == Head(names)
             enabled == name \in DOMAIN metrics_config /\ metrics_config[name]
         IN  IF ~enabled \/ name \in g
             THEN update_gauges(Tail(names), metrics_config, g, registry)
             ELSE IF name \in registry
             THEN [gauges |-> g, REGISTRY |-> registry]
             ELSE update_gauges(Tail(names), metrics_config, g \cup {name},
                                registry \cup {name})

InOrder(names) == SelectSeq(MetricOrder, LAMBDA m : m \in names)

\* ---------------------------------------------------------------- main()
\* while True: if reload_flag:
MainCheck ==
    /\ main.pc = "check"
    /\ main' = [main EXCEPT !.pc = IF reload_flag THEN "load" ELSE "collect"]
    /\ last' = NoFrame
    /\ UNCHANGED <<current_config, current_collector, gauges, reload_flag, REGISTRY,
                   unserved>>
    /\ UNCHANGED server_vars

\* new_config = loader.load(): a config from the server or the local file,
\* or RuntimeError (NoConfig)
MainLoad(new_config) ==
    /\ main.pc = "load"
    /\ main' = [pc |-> "apply", loaded |-> new_config # NoConfig,
                new_config |-> new_config]
    /\ unserved' = FALSE
    /\ last' = NoFrame
    /\ UNCHANGED <<current_config, current_collector, gauges, reload_flag, REGISTRY>>
    /\ UNCHANGED server_vars

\* the rest of the try block (apply_new_config, interval, device_type,
\* reload_flag = False), or the except clause after a failed load
MainApply ==
    /\ main.pc = "apply"
    /\ LET a == IF main.loaded
                THEN apply_new_config(main.new_config, current_config,
                                      current_collector, gauges, REGISTRY)
                ELSE [current_config |-> current_config,
                      current_collector |-> current_collector,
                      gauges |-> gauges, REGISTRY |-> REGISTRY, failed |-> FALSE]
       IN /\ current_config' = a.current_config
          /\ current_collector' = a.current_collector
          /\ gauges' = a.gauges
          /\ REGISTRY' = a.REGISTRY
          /\ last' = [op |-> "apply", loaded |-> main.loaded,
                      type_changed |-> main.loaded /\ main.new_config.device_type
                                                        # current_config.device_type,
                      failed |-> a.failed,
                      before |-> [current_config |-> current_config,
                                  current_collector |-> current_collector,
                                  gauges |-> gauges]]
    /\ reload_flag' = FALSE
    /\ main' = [pc |-> "collect", loaded |-> FALSE, new_config |-> NoConfig]
    /\ UNCHANGED unserved
    /\ UNCHANGED server_vars

\* one collection: safe_get_metrics, update_metrics_registry and
\* collect_and_update_metrics (which collects once more), then the sleep
MainCollect(metrics, again) ==
    /\ main.pc = "collect"
    /\ LET metrics_config == IF metrics # {}
                             THEN update_metrics_registry(metrics, current_config.metrics)
                             ELSE current_config.metrics
           u == IF metrics # {} /\ again # {}
                THEN update_gauges(InOrder(again), metrics_config, gauges, REGISTRY)
                ELSE [gauges |-> gauges, REGISTRY |-> REGISTRY]
       IN /\ current_config' = [current_config EXCEPT !.metrics = metrics_config]
          /\ gauges' = u.gauges
          /\ REGISTRY' = u.REGISTRY
    /\ main' = [main EXCEPT !.pc = "check"]
    /\ last' = NoFrame
    /\ UNCHANGED <<current_collector, reload_flag, unserved>>
    /\ UNCHANGED server_vars

\* ------------------------------------------------------- management API
\* CombinedHandler.do_POST for /reload and for a path it does not know
PostReload(path) ==
    /\ IF path = "/reload"
       THEN /\ reload_flag' = TRUE
            /\ unserved' = TRUE
            /\ last' = [op |-> "post", path |-> path, status |-> 200]
       ELSE /\ UNCHANGED <<reload_flag, unserved>>
            /\ last' = [op |-> "post", path |-> path, status |-> 404]
    /\ UNCHANGED <<current_config, current_collector, gauges, REGISTRY, main>>
    /\ UNCHANGED server_vars

\* the names a request body can list, one of them unknown to every config
UpdateNames == MetricNames \cup {"no_such_metric"}

\* a JSON object of updates, in the order of its members
Update == [name : UpdateNames, enabled : {BoolV(TRUE), BoolV(FALSE), IntV(1)}]

UpdateLists ==
    {<<>>} \cup {<<u>> : u \in Update}
    \cup {p \in Update \X Update : p[1].name # p[2].name}

\* the request bodies of POST /metrics/enable
EnableBodies ==
    [kind : {"too_large", "garbage", "not_object", "too_many"}, updates : {<<>>}]
    \cup [kind : {"object"}, updates : UpdateLists]

\* for metric_name, enabled in updates.items(): metrics_config is the dict
\* current_config["metrics"] itself, written in place
RECURSIVE enable_loop(_, _, _)
enable_loop(updates, metrics_config, invalid_metrics) ==
    IF Len(updates) = 0
    THEN [metrics |-> metrics_config, invalid_metrics |-> invalid_metrics,
          returned |-> FALSE]
    ELSE LET u == Head(updates)
         IN  IF u.enabled.t # "bool"
             THEN [metrics |-> metrics_config, invalid_metrics |-> invalid_metrics,
                   returned |-> TRUE]
             ELSE IF u.name \notin DOMAIN metrics_config
             THEN enable_loop(Tail(updates), metrics_config,
                              Append(invalid_metrics, u.name))
             ELSE enable_loop(Tail(updates),
                              [metrics_config EXCEPT ![u.name] = truth(u.enabled)],
                              invalid_metrics)

\* MetricsConfigHandler.do_POST: the status it answers and the metrics dict
\* of current_config when it returns
metrics_enable(body, save_to_local, metrics_config) ==
    CASE body.kind = "too_large" -> [status |-> 413, metrics |-> metrics_config]
      [] body.kind \in {"garbage", "not_object", "too_many"} ->
            [status |-> 400, metrics |-> metrics_config]
      [] OTHER ->
            LET r == enable_loop(body.updates, metrics_config, <<>>)
            IN  IF r.returned \/ Len(r.invalid_metrics) > 0
                THEN [status |-> 400, metrics |-> r.metrics]
                ELSE IF save_to_local
                THEN [status |-> 200, metrics |-> r.metrics]
                ELSE [status |-> 500, metrics |-> r.metrics]

\* POST /metrics/enable, under config_lock
MetricsEnable(body, save_to_local) ==
    /\ LET r == metrics_enable(body, save_to_local, current_config.metrics)
       IN /\ current_config' = [current_config EXCEPT !.metrics = r.metrics]
          /\ last' = [op |-> "enable", status |-> r.status,
                      before |-> current_config.metrics]
    /\ UNCHANGED <<current_collector, gauges, reload_flag, REGISTRY, main, unserved>>
    /\ UNCHANGED server_vars

\* the main loop and the reload requests
NextReload ==
    \/ MainCheck
    \/ \E new_config \in Configs \cup {NoConfig} : MainLoad(new_config)
    \/ MainApply
    \/ \E metrics \in SUBSET MetricNames, again \in SUBSET MetricNames :
          MainCollect(metrics, again)
    \/ \E path \in {"/reload", "/"} : PostReload(path)

SpecReload == Init /\ [][NextReload]_vars

\* the metrics API beside a main loop that collects and never reloads
NextEnable ==
    \/ MainCheck
    \/ \E metrics \in SUBSET MetricNames, again \in SUBSET MetricNames :
          MainCollect(metrics, again)
    \/ \E body \in EnableBodies, save_to_local \in BOOLEAN :
          MetricsEnable(body, save_to_local)

SpecEnable == Init /\ [][NextEnable]_vars

\* C28: a POST /reload answered 200 is never lost: as long as no load has
\* started after it, the reload flag stays set, so that the main loop's next
\* check starts one.
C28_ReloadNeverLost == unserved => reload_flag

\* C29: a POST /metrics/enable that is rejected (400 or 500) leaves the
\* metrics configuration in memory as it was before the request.
C29_RejectedChangesNothing ==
    (last.op = "enable" /\ last.status \in {400, 500})
        => current_config.metrics = last.before

\* C30: when a reload changes the device type and reinitialisation fails, the
\* old state is kept as a whole: current_collector, gauges and current_config
\* are what they were before the reload, and the collector in use is the one
\* of the current config's device type.
C30_FailedReinitKeepsAll ==
    /\ (last.op = "apply" /\ last.type_changed /\ last.failed)
          => /\ current_config = last.before.current_config
             /\ current_collector = last.before.current_collector
             /\ gauges = last.before.gauges
    /\ current_collector = current_config.device_type

====
